---- MODULE Spec2Model ----
(***************************************************************************)
(* State-machine model of backend/ai_generator.py: AIGenerator, the        *)
(* orchestration of one or two calls of the remote completion service,     *)
(* the tool round-trip between them and the keyword fallback.              *)
(*                                                                         *)
(* A Python str is modelled as a sequence of chunks.  Text that the code   *)
(* inspects (the query, an error's text, a history) is a sequence of       *)
(* one-character strings; a literal of the source that is only ever copied *)
(* is one chunk.  Concatenation and f-string interpolation are \o.         *)
(***************************************************************************)
EXTENDS Integers, Sequences, FiniteSets, TLC

(***************************************************************************)
(* Bounds of the model.                                                    *)
(***************************************************************************)
\* longest content list a remote response carries
MaxBlocks == 2
\* most words of a query given to the fallback on its own
MaxWords == 2

(***************************************************************************)
(* Strings.                                                                *)
(***************************************************************************)
\* str.lower() on one character (ASCII letters; other characters are kept)
LowerChar(c) ==
    CASE c = "A" -> "a" [] c = "B" -> "b" [] c = "C" -> "c" [] c = "D" -> "d"
      [] c = "E" -> "e" [] c = "F" -> "f" [] c = "G" -> "g" [] c = "H" -> "h"
      [] c = "I" -> "i" [] c = "J" -> "j" [] c = "K" -> "k" [] c = "L" -> "l"
      [] c = "M" -> "m" [] c = "N" -> "n" [] c = "O" -> "o" [] c = "P" -> "p"
      [] c = "Q" -> "q" [] c = "R" -> "r" [] c = "S" -> "s" [] c = "T" -> "t"
      [] c = "U" -> "u" [] c = "V" -> "v" [] c = "W" -> "w" [] c = "X" -> "x"
      [] c = "Y" -> "y" [] c = "Z" -> "z" [] OTHER -> c

\* str.lower()
Lower(s) == [i \in 1..Len(s) |-> LowerChar(s[i])]

\* the Python test `w in s` on strings: w is a contiguous substring of s
Contains(s, w) ==
    \E i \in 0..(Len(s) - Len(w)) : SubSeq(s, i + 1, i + Len(w)) = w

(***************************************************************************)
(* Optional arguments: None is a value of its own, distinct from the empty *)
(* string and the empty list (both are falsy, as None is).                 *)
(***************************************************************************)
None == [isNone |-> TRUE, val |-> <<>>]
Some(v) == [isNone |-> FALSE, val |-> v]
\* Python truthiness of an optional string or list
Truthy(o) == ~o.isNone /\ o.val # <<>>

(***************************************************************************)
(* AIGenerator.SYSTEM_PROMPT (abbreviated: the text is never inspected).   *)
(***************************************************************************)
SYSTEM_PROMPT ==
    <<" You are an AI assistant specialized in course materials and educational content with access to a comprehensive search tool for course information. ...">>

\* the model id given to the constructor
Model == "claude-model"

\* self.base_params as __init__ builds it
InitBaseParams == [model |-> Model, temperature |-> 0, max_tokens |-> 800]

(***************************************************************************)
(* _generate_fallback_response                                             *)
(***************************************************************************)
ProgrammingWords ==
    { <<"p","y","t","h","o","n">>,
      <<"p","r","o","g","r","a","m","m","i","n","g">>,
      <<"c","o","d","e">>,
      <<"f","u","n","c","t","i","o","n">>,
      <<"v","a","r","i","a","b","l","e">> }

CourseWords ==
    { <<"c","o","u","r","s","e">>,
      <<"l","e","s","s","o","n">>,
      <<"l","e","a","r","n">>,
      <<"s","t","u","d","y">>,
      <<"m","a","t","e","r","i","a","l">> }

QuestionWords ==
    { <<"w","h","a","t">>,
      <<"h","o","w">>,
      <<"w","h","y">>,
      <<"w","h","e","n">>,
      <<"w","h","e","r","e">> }

ProgrammingTemplate ==
    <<"I'm currently experiencing an issue with my AI service (insufficient API credits). \n            \nFor Python programming questions, I'd recommend:\n- Check the official Python documentation at docs.python.org\n- Try Python's built-in help() function\n- Use interactive Python shell to test code snippets\n- Visit Stack Overflow for specific programming questions\n\nPlease contact the administrator to restore full AI functionality.">>

CourseTemplate ==
    <<"I'm currently unable to access my AI service due to insufficient API credits.\n            \nFor course-related questions, you can:\n- Check the course materials in the docs folder\n- Review any provided course scripts or documentation\n- Look for README files or course outlines\n- Contact your instructor for specific course questions\n\nPlease ask an administrator to add credits to restore full functionality.">>

\* the interrogative template echoing the lower-cased query
QuestionTemplate_EchoLower(query) ==
    <<"I'm currently experiencing technical difficulties (insufficient API credits) and cannot fully process your question: \"">>
    \o Lower(query) \o
    <<"\"\n\nTo get a complete answer, please:\n1. Ask an administrator to add credits to the Anthropic API account\n2. Try rephrasing your question more specifically\n3. Consult relevant documentation or course materials\n4. Contact support for urgent assistance\n\nI apologize for the inconvenience!">>

QuestionTemplate(query) ==
    <<"I'm currently experiencing technical difficulties (insufficient API credits) and cannot fully process your question: \"">>
    \o query \o
    <<"\"\n\nTo get a complete answer, please:\n1. Ask an administrator to add credits to the Anthropic API account\n2. Try rephrasing your question more specifically\n3. Consult relevant documentation or course materials\n4. Contact support for urgent assistance\n\nI apologize for the inconvenience!">>

DefaultTemplate(query) ==
    <<"I'm currently unable to process your request due to insufficient API credits.\n\nYour question: \"">>
    \o query \o
    <<"\"\n\nPlease contact an administrator to restore service, or try:\n- Consulting available documentation\n- Using alternative resources\n- Contacting support directly\n\nThank you for your patience!">>

\* a classifier that tests the interrogative words first
Fallback_QuestionFirst(query, conversation_history) ==
    LET query_lower == Lower(query) IN
    IF \E word \in QuestionWords : Contains(query_lower, word)
    THEN QuestionTemplate(query)
    ELSE IF \E word \in ProgrammingWords : Contains(query_lower, word)
    THEN ProgrammingTemplate
    ELSE IF \E word \in CourseWords : Contains(query_lower, word)
    THEN CourseTemplate
    ELSE DefaultTemplate(query)

\* a fallback that adds the history to the default template
Fallback_UsesHistory(query, conversation_history) ==
    LET query_lower == Lower(query) IN
    IF \E word \in ProgrammingWords : Contains(query_lower, word)
    THEN ProgrammingTemplate
    ELSE IF \E word \in CourseWords : Contains(query_lower, word)
    THEN CourseTemplate
    ELSE IF \E word \in QuestionWords : Contains(query_lower, word)
    THEN QuestionTemplate(query)
    ELSE DefaultTemplate(query) \o conversation_history.val

\* _generate_fallback_response(query, conversation_history)
Fallback(query, conversation_history) ==
    LET query_lower == Lower(query) IN
    IF \E word \in ProgrammingWords : Contains(query_lower, word)
    THEN ProgrammingTemplate
    ELSE IF \E word \in CourseWords : Contains(query_lower, word)
    THEN CourseTemplate
    ELSE IF \E word \in QuestionWords : Contains(query_lower, word)
    THEN QuestionTemplate(query)
    ELSE DefaultTemplate(query)

(***************************************************************************)
(* The except clauses.  An exception is its class, as far as the except    *)
(* clauses tell classes apart, and its text str(e).                        *)
(*   bad_request : anthropic.BadRequestError                               *)
(*   timeout     : anthropic.APITimeoutError, TimeoutError                 *)
(*   other       : any other subclass of Exception                         *)
(***************************************************************************)
Error(kind, text) == [kind |-> kind, text |-> text]
NoError == Error("none", <<>>)

\* how a call of a function ends: it returns a value or raises an exception
Returned(v, fb) == [outcome |-> "returned", value |-> v, exc |-> NoError, fallback |-> fb]
Raised(e) == [outcome |-> "raised", value |-> <<>>, exc |-> e, fallback |-> <<>>]

\* one invocation of _generate_fallback_response, as the request records it
FallbackCall(q, h) == [query |-> q, history |-> h]

CreditBalance == <<"c","r","e","d","i","t"," ","b","a","l","a","n","c","e">>

\* the message of line 99
TechnicalDifficulties(e) ==
    <<"Sorry, I'm experiencing technical difficulties. Please try again later. (Error: ">>
    \o e.text \o <<")">>

\* the except clauses with a case-sensitive test of the error text
ExceptClauses_CaseSensitive(e, query, conversation_history) ==
    IF e.kind = "bad_request"
    THEN IF Contains(e.text, CreditBalance)
         THEN Returned(Fallback(query, conversation_history),
                       <<FallbackCall(query, conversation_history)>>)
         ELSE Returned(TechnicalDifficulties(e), <<>>)
    ELSE Returned(Fallback(query, conversation_history),
                  <<FallbackCall(query, conversation_history)>>)

\* the except clauses with a timeout answered by the generic message
ExceptClauses_TimeoutGeneric(e, query, conversation_history) ==
    IF e.kind = "bad_request"
    THEN IF Contains(Lower(e.text), CreditBalance)
         THEN Returned(Fallback(query, conversation_history),
                       <<FallbackCall(query, conversation_history)>>)
         ELSE Returned(TechnicalDifficulties(e), <<>>)
    ELSE IF e.kind = "timeout"
    THEN Returned(TechnicalDifficulties(e), <<>>)
    ELSE Returned(Fallback(query, conversation_history),
                  <<FallbackCall(query, conversation_history)>>)

\* the except clauses without the last one (except Exception)
ExceptClauses_NoCatchAll(e, query, conversation_history) ==
    IF e.kind = "bad_request"
    THEN IF Contains(Lower(e.text), CreditBalance)
         THEN Returned(Fallback(query, conversation_history),
                       <<FallbackCall(query, conversation_history)>>)
         ELSE Returned(TechnicalDifficulties(e), <<>>)
    ELSE IF e.kind = "timeout"
    THEN Returned(Fallback(query, conversation_history),
                  <<FallbackCall(query, conversation_history)>>)
    ELSE Raised(e)

\* the except clauses of generate_response, entered with exception e
ExceptClauses(e, query, conversation_history) ==
    IF e.kind = "bad_request"
    THEN IF Contains(Lower(e.text), CreditBalance)
         THEN Returned(Fallback(query, conversation_history),
                       <<FallbackCall(query, conversation_history)>>)
         ELSE Returned(TechnicalDifficulties(e), <<>>)
    ELSE IF e.kind = "timeout"
    THEN Returned(Fallback(query, conversation_history),
                  <<FallbackCall(query, conversation_history)>>)
    ELSE Returned(Fallback(query, conversation_history),
                  <<FallbackCall(query, conversation_history)>>)

\* the except clause of _handle_tool_execution with the query not recovered
FinalExceptClause_LosesQuery(e, base_params_arg) ==
    LET query == <<"y","o","u","r"," ","q","u","e","s","t","i","o","n">>
    IN Returned(Fallback(query, None), <<FallbackCall(query, None)>>)

\* the except clause of _handle_tool_execution, entered with exception e;
\* base_params is the parameter of that name (the first call's api_params)
FinalExceptClause(e, base_params_arg) ==
    LET query == IF base_params_arg.messages # <<>>
                 THEN base_params_arg.messages[1].content
                 ELSE <<"y","o","u","r"," ","q","u","e","s","t","i","o","n">>
    IN Returned(Fallback(query, None), <<FallbackCall(query, None)>>)

(***************************************************************************)
(* Content blocks, responses and messages.                                 *)
(***************************************************************************)
TextBlock(t) == [type |-> "text", text |-> t]
ToolUseBlock(id, name, input) ==
    [type |-> "tool_use", id |-> id, name |-> name, input |-> input]
Response(content, stop_reason) == [content |-> content, stop_reason |-> stop_reason]
NoResponse == Response(<<>>, "none")
Message(role, content) == [role |-> role, content |-> content]
ToolResult(id, content) ==
    [type |-> "tool_result", tool_use_id |-> id, content |-> content]

\* response.content[-1].text
ContentText_Last(content) ==
    IF Len(content) = 0
    THEN Raised(Error("other", <<"list index out of range">>))
    ELSE IF content[Len(content)].type # "text"
    THEN Raised(Error("other", <<"'ToolUseBlock' object has no attribute 'text'">>))
    ELSE Returned(content[Len(content)].text, <<>>)

\* response.content[0].text: IndexError on an empty list, AttributeError on a
\* block that is not a text block
ContentText(content) ==
    IF Len(content) = 0
    THEN Raised(Error("other", <<"list index out of range">>))
    ELSE IF content[1].type # "text"
    THEN Raised(Error("other", <<"'ToolUseBlock' object has no attribute 'text'">>))
    ELSE Returned(content[1].text, <<>>)

(***************************************************************************)
(* Building the call parameters.                                           *)
(***************************************************************************)
\* {**a, **b}: the keys of b override those of a
Merge(a, b) == b @@ a

\* system_content with the test `conversation_history is not None`
SystemContent_NotNone(conversation_history) ==
    IF ~conversation_history.isNone
    THEN SYSTEM_PROMPT \o <<"\n\nPrevious conversation:\n">> \o conversation_history.val
    ELSE SYSTEM_PROMPT

\* system_content of generate_response
SystemContent(conversation_history) ==
    IF Truthy(conversation_history)
    THEN SYSTEM_PROMPT \o <<"\n\nPrevious conversation:\n">> \o conversation_history.val
    ELSE SYSTEM_PROMPT

\* api_params of generate_response
ApiParams(self_base_params, query, conversation_history, tools) ==
    LET p == Merge(self_base_params,
                   [messages |-> <<Message("user", query)>>,
                    system |-> SystemContent(conversation_history)])
    IN IF Truthy(tools)
       THEN Merge(p, [tools |-> tools.val, tool_choice |-> [type |-> "auto"]])
       ELSE p

\* final parameters built on the first call's parameters
FinalParams_FromApiParams(self_base_params, base_params_arg, msgs) ==
    Merge(base_params_arg, [messages |-> msgs])

\* final_params of _handle_tool_execution
FinalParams(self_base_params, base_params_arg, msgs) ==
    Merge(self_base_params,
          [messages |-> msgs, system |-> base_params_arg.system])

(***************************************************************************)
(* The inputs the model draws from.                                        *)
(***************************************************************************)
Queries ==
    { <<"W","h","a","t"," ","i","s"," ","P","y","t","h","o","n","?">>,
      <<"h","o","w"," ","t","o"," ","l","e","a","r","n">>,
      <<"W","H","Y","?">>,
      <<"H","i"," ","\"","x","\"","!">> }

Histories == { None, Some(<<>>), Some(<<"U","s","e","r",":"," ","h","i">>) }

SearchTool == [name |-> "search_course_content"]
ToolLists == { None, Some(<<>>), Some(<<SearchTool>>) }

\* tool_manager: None or a tool manager object
ToolManagers == { "None", "ToolManager" }

\* texts of bad-request errors: two that hold the phrase "credit balance" in
\* some case, one that does not
CreditLowText == <<"Y","o","u","r"," ","c","r","e","d","i","t"," ","b","a","l","a","n","c","e"," ","i","s"," ","t","o","o"," ","l","o","w">>
CreditUpperText == <<"C","R","E","D","I","T"," ","B","a","l","a","n","c","e"," ","l","o","w">>
InvalidModelText == <<"i","n","v","a","l","i","d"," ","m","o","d","e","l">>

\* the exceptions a remote call or a tool raises
Errors ==
    { Error("bad_request", CreditLowText),
      Error("bad_request", CreditUpperText),
      Error("bad_request", InvalidModelText),
      Error("timeout", <<"Request timed out.">>),
      Error("other", <<"Connection error.">>) }

\* what the tool executor returns
ToolOutputs == { <<"found X at minute 5">>, <<"No relevant content found.">> }

\* the blocks of a first and of a second response
FirstBlocks ==
    { TextBlock(<<"Let me search.">>),
      ToolUseBlock("t1", "search_course_content", [query |-> "X"]),
      ToolUseBlock("t2", "get_course_outline", [course_title |-> "Y"]) }
SecondBlocks ==
    { TextBlock(<<"X appears at minute 5.">>),
      ToolUseBlock("t3", "search_course_content", [query |-> "Z"]) }

StopReasons == { "end_turn", "tool_use", "max_tokens" }

\* the content lists over a set of blocks: no block twice, at most MaxBlocks
Contents(blocks) ==
    UNION { { c \in [1..n -> blocks] : \A i, j \in 1..n : c[i] = c[j] => i = j }
            : n \in 0..MaxBlocks }

FirstResponses == { Response(c, s) : c \in Contents(FirstBlocks), s \in StopReasons }
SecondResponses == { Response(c, s) : c \in Contents(SecondBlocks), s \in StopReasons }

(***************************************************************************)
(* State.                                                                  *)
(***************************************************************************)
VARIABLES
    pc,                    \* where the request stands
    base_params,           \* self.base_params
    query,                 \* the arguments of generate_response
    conversation_history,
    tools,
    tool_manager,
    api_params,            \* api_params of generate_response
    initial_response,      \* the first response
    messages,              \* messages of _handle_tool_execution
    tool_results,          \* tool_results of _handle_tool_execution
    idx,                   \* position in initial_response.content of the block in execution
    final_params,          \* final_params of _handle_tool_execution
    log,                   \* the remote calls and tool executions made, in order
    fallback_calls,        \* the invocations of _generate_fallback_response
    result,                \* how generate_response ended
    peer                   \* the locals of a second invocation on the same instance

vars == <<pc, base_params, query, conversation_history, tools, tool_manager,
          api_params, initial_response, messages, tool_results, idx,
          final_params, log, fallback_calls, result, peer>>

NoParams == [model |-> "none"]
NoResult == [outcome |-> "none", value |-> <<>>, exc |-> NoError, fallback |-> <<>>]

\* log entries
CallEntry(params, outcome, response, error) ==
    [kind |-> "call", params |-> params, outcome |-> outcome,
     response |-> response, error |-> error]
ExecEntry(name, input, outcome, output, error) ==
    [kind |-> "exec", name |-> name, input |-> input, outcome |-> outcome,
     output |-> output, error |-> error]

IsCall(e) == e.kind = "call"
IsExec(e) == e.kind = "exec"
\* the remote calls of the request, and its tool executions
Calls == SelectSeq(log, IsCall)
Execs == SelectSeq(log, IsExec)

\* the locals of an invocation that has not begun
IdleLocals ==
    [pc |-> "idle", query |-> <<>>, conversation_history |-> None,
     tools |-> None, tool_manager |-> "None", api_params |-> NoParams,
     initial_response |-> NoResponse, messages |-> <<>>,
     tool_results |-> <<>>, idx |-> 0, final_params |-> NoParams,
     log |-> <<>>, fallback_calls |-> <<>>, result |-> NoResult]

Init ==
    /\ pc = "idle"
    /\ base_params = InitBaseParams
    /\ query = <<>>
    /\ conversation_history = None
    /\ tools = None
    /\ tool_manager = "None"
    /\ api_params = NoParams
    /\ initial_response = NoResponse
    /\ messages = <<>>
    /\ tool_results = <<>>
    /\ idx = 0
    /\ final_params = NoParams
    /\ log = <<>>
    /\ fallback_calls = <<>>
    /\ result = NoResult
    /\ peer = IdleLocals

(***************************************************************************)
(* generate_response                                                       *)
(***************************************************************************)
\* generate_response ends with completion r
Finish(r) ==
    /\ pc' = "done"
    /\ result' = r
    /\ fallback_calls' = fallback_calls \o r.fallback

\* parameters built by updating self.base_params in place
BaseAfterBuild_InPlace(self_base_params, built) == built

\* self.base_params after api_params has been built from it: {**self.base_params,
\* ...} makes a new dict and leaves self.base_params as it was
BaseAfterBuild(self_base_params, built) == self_base_params

\* generate_response is called: lines 64-81, up to the first remote call
Start(q, h, t, tm) ==
    /\ pc \in {"idle", "done"}
    /\ pc' = "first_call"
    /\ query' = q
    /\ conversation_history' = h
    /\ tools' = t
    /\ tool_manager' = tm
    /\ api_params' = ApiParams(base_params, q, h, t)
    /\ initial_response' = NoResponse
    /\ messages' = <<>>
    /\ tool_results' = <<>>
    /\ idx' = 0
    /\ final_params' = NoParams
    /\ log' = <<>>
    /\ fallback_calls' = <<>>
    /\ result' = NoResult
    /\ base_params' = BaseAfterBuild(base_params, ApiParams(base_params, q, h, t))
    /\ UNCHANGED peer

\* one user message for each tool result
WithToolResults_OnePerTool(msgs, results) ==
    msgs \o [i \in 1..Len(results) |-> Message("user", <<results[i]>>)]

\* lines 143-144: the tool results, when there are any, as a single message
WithToolResults(msgs, results) ==
    IF results # <<>>
    THEN Append(msgs, Message("user", results))
    ELSE msgs

\* a loop that does not move past the block it has executed
NextToolUse_Same(content, from) ==
    LET S == { i \in from..Len(content) : content[i].type = "tool_use" }
    IN IF from > 1 THEN from - 1
       ELSE IF S = {} THEN 0 ELSE CHOOSE i \in S : \A j \in S : i <= j

\* a loop that takes the last tool_use block next
NextToolUse_Last(content, from) ==
    LET S == { i \in from..Len(content) : content[i].type = "tool_use" }
    IN IF S = {} THEN 0 ELSE CHOOSE i \in S : \A j \in S : i >= j

\* the first index i >= from of a tool_use block of content, 0 when there is none
NextToolUse(content, from) ==
    LET S == { i \in from..Len(content) : content[i].type = "tool_use" }
    IN IF S = {} THEN 0 ELSE CHOOSE i \in S : \A j \in S : i <= j

\* the for loop of _handle_tool_execution goes on from block `from` with the
\* results collected so far: to the next tool_use block, or past the loop to
\* the final parameters (lines 142-151)
ContinueLoop(content, msgs, results, from) ==
    LET next == NextToolUse(content, from)
    IN /\ tool_results' = results
       /\ IF next # 0
          THEN /\ idx' = next
               /\ messages' = msgs
               /\ final_params' = final_params
               /\ pc' = "tool_loop"
          ELSE LET all == WithToolResults(msgs, results)
               IN /\ idx' = 0
                  /\ messages' = all
                  /\ final_params' = FinalParams(base_params, api_params, all)
                  /\ pc' = "second_call"

\* the condition of line 88 without its first conjunct
NeedsToolExecution_AnyStop(resp, tm) ==
    tm # "None"

\* the condition of line 88 without its second conjunct
NeedsToolExecution_IgnoresManager(resp, tm) ==
    resp.stop_reason = "tool_use"

\* line 88: response.stop_reason == "tool_use" and tool_manager
NeedsToolExecution(resp, tm) ==
    resp.stop_reason = "tool_use" /\ tm # "None"

\* the first remote call returns resp: lines 85-92
FirstCallReturns(resp) ==
    /\ pc = "first_call"
    /\ log' = Append(log, CallEntry(api_params, "ok", resp, NoError))
    /\ initial_response' = resp
    /\ IF NeedsToolExecution(resp, tool_manager)
       THEN \* _handle_tool_execution, lines 121-128
            /\ ContinueLoop(resp.content,
                            Append(api_params.messages,
                                   Message("assistant", resp.content)),
                            <<>>, 1)
            /\ UNCHANGED <<result, fallback_calls>>
       ELSE LET r == ContentText(resp.content)
            IN /\ IF r.outcome = "raised"
                  THEN Finish(ExceptClauses(r.exc, query, conversation_history))
                  ELSE Finish(r)
               /\ UNCHANGED <<messages, tool_results, idx, final_params>>
    /\ UNCHANGED <<peer, base_params, query, conversation_history, tools,
                   tool_manager, api_params>>

\* the first remote call raises e: lines 94-107
FirstCallRaises(e) ==
    /\ pc = "first_call"
    /\ log' = Append(log, CallEntry(api_params, "error", NoResponse, e))
    /\ Finish(ExceptClauses(e, query, conversation_history))
    /\ UNCHANGED <<peer, base_params, query, conversation_history, tools,
                   tool_manager, api_params, initial_response, messages,
                   tool_results, idx, final_params>>

(***************************************************************************)
(* _handle_tool_execution                                                  *)
(***************************************************************************)
\* tool_manager.execute_tool returns out for the block at idx: lines 131-140
ExecuteToolReturns(out) ==
    /\ pc = "tool_loop"
    /\ LET content_block == initial_response.content[idx]
       IN /\ log' = Append(log, ExecEntry(content_block.name, content_block.input,
                                          "ok", out, NoError))
          /\ ContinueLoop(initial_response.content, messages,
                          Append(tool_results, ToolResult(content_block.id, out)),
                          idx + 1)
    /\ UNCHANGED <<peer, base_params, query, conversation_history, tools,
                   tool_manager, api_params, initial_response, result,
                   fallback_calls>>

\* a tool exception caught inside the loop, its text taken as the tool's result
ExecuteToolRaises_Swallowed(e) ==
    /\ pc = "tool_loop"
    /\ LET content_block == initial_response.content[idx]
       IN /\ log' = Append(log, ExecEntry(content_block.name, content_block.input,
                                          "error", <<>>, e))
          /\ ContinueLoop(initial_response.content, messages,
                          Append(tool_results, ToolResult(content_block.id, e.text)),
                          idx + 1)
    /\ UNCHANGED <<peer, base_params, query, conversation_history, tools,
                   tool_manager, api_params, initial_response, result,
                   fallback_calls>>

\* tool_manager.execute_tool raises e for the block at idx: the exception
\* leaves _handle_tool_execution and reaches the except clauses of
\* generate_response, whose try block holds the call (line 89)
ExecuteToolRaises(e) ==
    /\ pc = "tool_loop"
    /\ LET content_block == initial_response.content[idx]
       IN log' = Append(log, ExecEntry(content_block.name, content_block.input,
                                       "error", <<>>, e))
    /\ Finish(ExceptClauses(e, query, conversation_history))
    /\ UNCHANGED <<peer, base_params, query, conversation_history, tools,
                   tool_manager, api_params, initial_response, messages,
                   tool_results, idx, final_params>>

\* the second remote call returns resp: lines 155-161
SecondCallReturns(resp) ==
    /\ pc = "second_call"
    /\ log' = Append(log, CallEntry(final_params, "ok", resp, NoError))
    /\ LET r == ContentText(resp.content)
       IN IF r.outcome = "raised"
          THEN Finish(FinalExceptClause(r.exc, api_params))
          ELSE Finish(r)
    /\ UNCHANGED <<peer, base_params, query, conversation_history, tools,
                   tool_manager, api_params, initial_response, messages,
                   tool_results, idx, final_params>>

\* a second remote call that is issued again when it raises
SecondCallRaises_Retry(e) ==
    /\ pc = "second_call"
    /\ log' = Append(log, CallEntry(final_params, "error", NoResponse, e))
    /\ UNCHANGED <<peer, pc, result, fallback_calls, base_params, query,
                   conversation_history, tools, tool_manager, api_params,
                   initial_response, messages, tool_results, idx, final_params>>

\* the second remote call raises e: lines 157-161
SecondCallRaises(e) ==
    /\ pc = "second_call"
    /\ log' = Append(log, CallEntry(final_params, "error", NoResponse, e))
    /\ Finish(FinalExceptClause(e, api_params))
    /\ UNCHANGED <<peer, base_params, query, conversation_history, tools,
                   tool_manager, api_params, initial_response, messages,
                   tool_results, idx, final_params>>

Next ==
    \/ \E q \in Queries, h \in Histories, t \in ToolLists, tm \in ToolManagers :
          Start(q, h, t, tm)
    \/ \E resp \in FirstResponses : FirstCallReturns(resp)
    \/ \E e \in Errors : FirstCallRaises(e)
    \/ \E out \in ToolOutputs : ExecuteToolReturns(out)
    \/ \E e \in Errors : ExecuteToolRaises(e)
    \/ \E resp \in SecondResponses : SecondCallReturns(resp)
    \/ \E e \in Errors : SecondCallRaises(e)

Spec == Init /\ [][Next]_vars

(***************************************************************************)
(* Properties.                                                             *)
(***************************************************************************)
Done == pc = "done"
FirstCall == Calls[1]
FirstReturned == Len(Calls) >= 1 /\ FirstCall.outcome = "ok"
ExecFailed == \E i \in 1..Len(Execs) : Execs[i].outcome = "error"
\* the tool_use blocks of a content list, in order
IsToolUse(b) == b.type = "tool_use"
ToolUses(content) == SelectSeq(content, IsToolUse)
IsText(b) == b.type = "text"
Texts(content) == SelectSeq(content, IsText)
\* a Python str of the model
IsString(v) == v \in Seq(STRING)

\* C1: generate_response never raises: whatever the first call, the tools and
\* the second call do, a finished request has returned a string.
C1_NeverRaises ==
    Done => result.outcome = "returned" /\ IsString(result.value)

\* C1 witness: a request in which a tool raised has finished by returning
C1_Witness ==
    Done /\ ExecFailed /\ result.outcome = "returned"

\* C2 as stated: one remote call when the first response's stop reason is a
\* direct answer, two when it is tool_use.
C2_Original ==
    Done /\ FirstReturned =>
        Len(Calls) = IF initial_response.stop_reason = "tool_use" THEN 2 ELSE 1

\* C2 amended: a finished request whose first call returned has made two
\* remote calls when the stop reason is tool_use, a tool manager was supplied
\* and no tool execution failed, and one remote call otherwise.
C2_CallCount ==
    Done /\ FirstReturned =>
        Len(Calls) = IF /\ initial_response.stop_reason = "tool_use"
                        /\ tool_manager # "None"
                        /\ ~ExecFailed
                     THEN 2 ELSE 1

\* C2 witness: a tool round-trip that made its two calls
C2_Witness ==
    Done /\ FirstReturned /\ initial_response.stop_reason = "tool_use"
         /\ Len(Execs) = 2 /\ Len(Calls) = 2

\* the name and input the executor is to get for each tool_use block
Invocations(blocks) ==
    [i \in 1..Len(blocks) |-> [name |-> blocks[i].name, input |-> blocks[i].input]]
\* the name and input the executor got, in order
Invoked == [i \in 1..Len(Execs) |-> [name |-> Execs[i].name, input |-> Execs[i].input]]

\* C3 as stated: after a first response with stop reason tool_use the executor
\* has been invoked once per tool_use block, in order.
C3_Original ==
    Done /\ FirstReturned /\ initial_response.stop_reason = "tool_use" =>
        Invoked = Invocations(ToolUses(initial_response.content))

\* C3 amended: after a first response with stop reason tool_use and with a tool
\* manager supplied, the executor has been invoked once per tool_use block, in
\* order, with the block's name and input, up to and including the first
\* invocation that failed (all N blocks when none failed); without a tool
\* manager it has not been invoked.
C3_ExecutorInvocations ==
    Done /\ FirstReturned /\ initial_response.stop_reason = "tool_use" =>
        LET want == Invocations(ToolUses(initial_response.content))
        IN IF tool_manager = "None"
           THEN Invoked = <<>>
           ELSE /\ Len(Invoked) <= Len(want)
                /\ Invoked = SubSeq(want, 1, Len(Invoked))
                /\ \A i \in 1..Len(Execs) :
                      Execs[i].outcome = "error" => i = Len(Execs)
                /\ ~ExecFailed => Invoked = want

\* C3 witness: two tool_use blocks executed, both successfully
C3_Witness ==
    Done /\ FirstReturned /\ initial_response.stop_reason = "tool_use"
         /\ Len(ToolUses(initial_response.content)) = 2
         /\ Len(Execs) = 2 /\ ~ExecFailed

\* C4: a remote call that is not the request's first carries neither tools nor
\* tool_choice and is the last thing the request does with its collaborators:
\* no tool execution and no remote call follows it, whatever its response.
C4_SecondCallWithoutTools ==
    \A i \in 1..Len(log) :
        (IsCall(log[i]) /\ \E j \in 1..(i - 1) : IsCall(log[j])) =>
            /\ "tools" \notin DOMAIN log[i].params
            /\ "tool_choice" \notin DOMAIN log[i].params
            /\ i = Len(log)

\* C4 witness: the first call offered tools and the second response asks for a
\* tool again
C4_Witness ==
    Done /\ Len(Calls) = 2 /\ "tools" \in DOMAIN Calls[1].params
         /\ Calls[2].outcome = "ok" /\ Calls[2].response.stop_reason = "tool_use"
         /\ ToolUses(Calls[2].response.content) # <<>>

\* a request without tools whose single response is a direct answer
NoToolsDirect ==
    Done /\ ~Truthy(tools) /\ FirstReturned
         /\ initial_response.stop_reason # "tool_use"

\* C5 as stated: without tools and with a direct-answer stop reason the result
\* is the first text block of the response, and one remote call is made.
C5_Original ==
    NoToolsDirect =>
        /\ Texts(initial_response.content) # <<>>
        /\ result.value = Texts(initial_response.content)[1].text
        /\ Len(Calls) = 1

\* C5 amended: without tools and with a direct-answer stop reason exactly one
\* remote call is made and no tool is executed; the result is the text of the
\* response's first content block when that block is a text block, and
\* fallback(query, history) when the content is empty or starts with another
\* block.
C5_DirectAnswer ==
    NoToolsDirect =>
        /\ Len(Calls) = 1
        /\ Execs = <<>>
        /\ result.outcome = "returned"
        /\ LET content == initial_response.content
           IN IF content # <<>> /\ content[1].type = "text"
              THEN result.value = content[1].text /\ fallback_calls = <<>>
              ELSE result.value = Fallback(query, conversation_history)

\* C5 witness: a direct answer whose text came back
C5_Witness ==
    NoToolsDirect /\ Len(initial_response.content) = 2
                  /\ initial_response.content[1].type = "text"
                  /\ result.value = initial_response.content[1].text

\* the remote calls that failed with a bad-request error
BadRequestFailed(c) == c.outcome = "error" /\ c.error.kind = "bad_request"
\* the error texts that hold "credit balance" in some case
MentionsCredit(e) == e.text \in {CreditLowText, CreditUpperText}

\* C6 as stated: a remote call that fails with a bad-request error naming the
\* credit balance ends in the fallback's output; one that fails with another
\* bad-request error ends in the technical-difficulty message with the error
\* text, the fallback not called.
C6_Original ==
    Done =>
        \A i \in 1..Len(Calls) :
            BadRequestFailed(Calls[i]) =>
                IF MentionsCredit(Calls[i].error)
                THEN /\ result.value = Fallback(query, conversation_history)
                     /\ fallback_calls # <<>>
                ELSE /\ result.value = TechnicalDifficulties(Calls[i].error)
                     /\ fallback_calls = <<>>

\* C6 amended: a first remote call that fails with a bad-request error whose
\* text contains "credit balance" in any case ends in fallback(query, history);
\* a first remote call that fails with another bad-request error ends in the
\* technical-difficulty message carrying the error text, the fallback never
\* called; a second remote call that fails with any bad-request error ends in
\* fallback(query, None).
C6_QuotaDetection ==
    Done =>
        /\ (Len(Calls) >= 1 /\ BadRequestFailed(Calls[1])) =>
              IF MentionsCredit(Calls[1].error)
              THEN /\ result.value = Fallback(query, conversation_history)
                   /\ fallback_calls = <<FallbackCall(query, conversation_history)>>
              ELSE /\ result.value = TechnicalDifficulties(Calls[1].error)
                   /\ fallback_calls = <<>>
        /\ (Len(Calls) >= 2 /\ BadRequestFailed(Calls[2])) =>
              /\ result.value = Fallback(query, None)
              /\ fallback_calls = <<FallbackCall(query, None)>>

\* C6 witness: the first call failed on a credit balance written in capitals
\* and the fallback answered
C6_Witness ==
    Done /\ Len(Calls) = 1 /\ BadRequestFailed(Calls[1])
         /\ Calls[1].error.text = CreditUpperText
         /\ fallback_calls # <<>>

\* C7: when the executor fails on a tool_use block, no later block is
\* executed, no second remote call is made and the result is
\* fallback(query, None).
C7_ToolFailureAborts ==
    Done /\ ExecFailed =>
        /\ \A i \in 1..Len(log) :
              (IsExec(log[i]) /\ log[i].outcome = "error") => i = Len(log)
        /\ Len(Calls) = 1
        /\ result.outcome = "returned"
        /\ result.value = Fallback(query, None)

\* C8: a remote call that failed is the last thing a request does with the
\* remote service, and once the fallback has been invoked the request is over.
C8_NoRetry ==
    /\ \A i \in 1..Len(log) :
          (IsCall(log[i]) /\ log[i].outcome = "error") =>
              \A j \in (i + 1)..Len(log) : ~IsCall(log[j])
    /\ fallback_calls # <<>> => Done
    /\ Len(fallback_calls) <= 1

\* C8 witness: the second call timed out and the fallback answered
C8_Witness ==
    Done /\ Len(Calls) = 2 /\ Calls[2].outcome = "error"
         /\ Calls[2].error.kind = "timeout" /\ fallback_calls # <<>>

\* C9: when the first remote call fails with a timeout or with any error other
\* than a bad request, the result is fallback(query, history) and no tool has
\* been executed.
C9_FirstCallTransportFailure ==
    (Done /\ Len(Calls) >= 1 /\ FirstCall.outcome = "error"
          /\ FirstCall.error.kind \in {"timeout", "other"}) =>
        /\ result.outcome = "returned"
        /\ result.value = Fallback(query, conversation_history)
        /\ fallback_calls = <<FallbackCall(query, conversation_history)>>
        /\ Execs = <<>>
        /\ Len(Calls) = 1

\* C9 witness: the first call timed out in a request that came with history
\* and a tool manager
C9_Witness ==
    Done /\ Len(Calls) = 1 /\ FirstCall.outcome = "error"
         /\ FirstCall.error.kind = "timeout"
         /\ Truthy(conversation_history) /\ tool_manager # "None"
         /\ fallback_calls # <<>>

\* a round-trip whose tools all succeeded and whose second call was made
RoundTrip == Done /\ Len(Calls) >= 2 /\ ~ExecFailed

\* C10 as stated: in a round-trip whose tools all succeed the result is the
\* first text block of the second response when the second call succeeds, and
\* the fallback's output for the original query when it fails; the call is
\* not made again.
C10_Original ==
    RoundTrip =>
        /\ Len(Calls) = 2
        /\ IF Calls[2].outcome = "ok"
           THEN /\ Texts(Calls[2].response.content) # <<>>
                /\ result.value = Texts(Calls[2].response.content)[1].text
           ELSE result.value = Fallback(query, None)

\* C10 amended: in a round-trip whose tools all succeed, the result is the
\* text of the second response's first content block when the second call
\* succeeds and that block is a text block; it is fallback(query, None), for
\* the query of the first message, when the second call fails or its response
\* content is empty or starts with another block; the call is not made again.
C10_SecondCallResult ==
    RoundTrip =>
        /\ Len(Calls) = 2
        /\ result.outcome = "returned"
        /\ LET c == Calls[2]
           IN IF /\ c.outcome = "ok"
                 /\ c.response.content # <<>>
                 /\ c.response.content[1].type = "text"
              THEN /\ result.value = c.response.content[1].text
                   /\ fallback_calls = <<>>
              ELSE /\ result.value = Fallback(query, None)
                   /\ fallback_calls = <<FallbackCall(query, None)>>

\* C10 witness: the second call failed in a request that came with history,
\* and the fallback was given the query without it
C10_Witness ==
    RoundTrip /\ Calls[2].outcome = "error" /\ Execs # <<>>
              /\ Truthy(conversation_history)
              /\ fallback_calls = <<FallbackCall(query, None)>>

(***************************************************************************)
(* _generate_fallback_response on its own: the query is a list of words    *)
(* joined by spaces, and the function is applied to it once.               *)
(***************************************************************************)
WordPython == <<"P","y","t","h","o","n">>
WordLesson == <<"L","e","s","s","o","n">>
WordHow == <<"h","o","w">>
WordWhy == <<"W","H","Y","?">>
WordShowcase == <<"s","h","o","w","c","a","s","e">>
WordHi == <<"\"","H","i","!","\"">>
FallbackWords == { WordPython, WordLesson, WordHow, WordWhy, WordShowcase, WordHi }

WordLists == UNION { [1..n -> FallbackWords] : n \in 0..MaxWords }

\* " ".join(ws)
RECURSIVE Join(_)
Join(ws) ==
    IF Len(ws) = 0 THEN <<>>
    ELSE IF Len(ws) = 1 THEN ws[1]
    ELSE ws[1] \o <<" ">> \o Join(Tail(ws))

InitFallback ==
    /\ pc = "fallback"
    /\ query \in { Join(ws) : ws \in WordLists }
    /\ conversation_history \in Histories
    /\ base_params = InitBaseParams
    /\ tools = None
    /\ tool_manager = "None"
    /\ api_params = NoParams
    /\ initial_response = NoResponse
    /\ messages = <<>>
    /\ tool_results = <<>>
    /\ idx = 0
    /\ final_params = NoParams
    /\ log = <<>>
    /\ fallback_calls = <<>>
    /\ result = NoResult
    /\ peer = IdleLocals

\* _generate_fallback_response(query, conversation_history) is called and returns
ApplyFallback ==
    /\ pc = "fallback"
    /\ pc' = "fallback_done"
    /\ result' = Returned(Fallback(query, conversation_history),
                          <<FallbackCall(query, conversation_history)>>)
    /\ fallback_calls' = Append(fallback_calls,
                                FallbackCall(query, conversation_history))
    /\ UNCHANGED <<peer, base_params, query, conversation_history, tools,
                   tool_manager, api_params, initial_response, messages,
                   tool_results, idx, final_params, log>>

NextFallback == ApplyFallback

FallbackSpec == InitFallback /\ [][NextFallback]_vars

FallbackDone == pc = "fallback_done"

\* the category of a word: 1 programming, 2 course, 3 interrogative, 4 none
\* ("showcase" holds "how"; the words hold no space, so a keyword is in the
\* query exactly when it is in one of its words)
WordCategory(w) ==
    CASE w = WordPython -> 1
      [] w = WordLesson -> 2
      [] w \in {WordHow, WordWhy, WordShowcase} -> 3
      [] OTHER -> 4
\* the first category, in priority order, that a word of the list is of
ListCategory(ws) ==
    IF \E i \in 1..Len(ws) : WordCategory(ws[i]) = 1 THEN 1
    ELSE IF \E i \in 1..Len(ws) : WordCategory(ws[i]) = 2 THEN 2
    ELSE IF \E i \in 1..Len(ws) : WordCategory(ws[i]) = 3 THEN 3
    ELSE 4
\* the template of a category for query q
TemplateOf(c, q) ==
    CASE c = 1 -> ProgrammingTemplate
      [] c = 2 -> CourseTemplate
      [] c = 3 -> QuestionTemplate(q)
      [] OTHER -> DefaultTemplate(q)

\* C11: the fallback returns the template of the first category, in the order
\* programming, course, interrogative, that has a keyword in the lower-cased
\* query, and the default template exactly when no category has one.
C11_FirstMatchWins ==
    FallbackDone =>
        \A ws \in WordLists :
            Join(ws) = query =>
                /\ result.value = TemplateOf(ListCategory(ws), query)
                /\ (result.value = DefaultTemplate(query)) <=> (ListCategory(ws) = 4)

\* C11 witness: a query with an interrogative word before a programming word
\* got the programming template
C11_Witness ==
    FallbackDone /\ query = Join(<<WordHow, WordPython>>)
                 /\ result.value = ProgrammingTemplate

\* C12: the text the fallback returned for a query and a history is the text
\* it returns for that query and any other history, None included.
C12_HistoryIgnored ==
    FallbackDone =>
        \A h \in Histories : Fallback(query, h) = result.value

\* C12 witness: the fallback was called with a history and a query it echoes
C12_Witness ==
    FallbackDone /\ Truthy(conversation_history)
                 /\ query = Join(<<WordHi, WordHi>>)
                 /\ result.value = DefaultTemplate(query)

\* C13: for a query of category 3 or 4 the returned text holds the query as it
\* was given; for a query of category 1 or 2 it is the category's constant.
C13_QueryEcho ==
    FallbackDone =>
        \A ws \in WordLists :
            Join(ws) = query =>
                LET c == ListCategory(ws)
                IN /\ c \in {3, 4} => Contains(result.value, query)
                   /\ c = 1 => result.value = ProgrammingTemplate
                   /\ c = 2 => result.value = CourseTemplate

\* C13 witness: an interrogative query in capitals and with quotes is echoed
C13_Witness ==
    FallbackDone /\ query = Join(<<WordWhy, WordHi>>)
                 /\ query # Lower(query)
                 /\ Contains(result.value, query)

\* C15: self.base_params is what the constructor built, whatever requests
\* have run, and every remote call carries its model, temperature and
\* max_tokens.
C15_BaseParamsIntact ==
    /\ base_params = [model |-> Model, temperature |-> 0, max_tokens |-> 800]
    /\ DOMAIN base_params = {"model", "temperature", "max_tokens"}
    /\ \A i \in 1..Len(Calls) :
          /\ Calls[i].params.model = Model
          /\ Calls[i].params.temperature = 0
          /\ Calls[i].params.max_tokens = 800

\* C15 witness: a round-trip that offered tools has made both its calls
C15_Witness ==
    Done /\ Len(Calls) = 2 /\ Truthy(tools) /\ Truthy(conversation_history)
         /\ "tools" \in DOMAIN Calls[1].params

\* the tool results the second call is to carry: for the i-th tool_use block
\* its id and what the executor returned for it
ExpectedResults ==
    LET uses == ToolUses(initial_response.content)
    IN [i \in 1..Len(uses) |-> ToolResult(uses[i].id, Execs[i].output)]

\* C16 as stated: the second call's messages are the user's query, the
\* assistant message with the first response's content and one user message
\* with all tool results, the i-th for the i-th tool_use block.
C16_Original ==
    Len(Calls) >= 2 =>
        Calls[2].params.messages =
            << Message("user", query),
               Message("assistant", initial_response.content),
               Message("user", ExpectedResults) >>

\* C16 amended: the second call's messages are the user's query, then the
\* assistant message with the first response's full content in order, then,
\* when the first response has at least one tool_use block, a single user
\* message with all tool results, the i-th carrying the id of the i-th
\* tool_use block and the string the executor returned for it; when the first
\* response has no tool_use block there is no third message.
C16_SecondCallMessages ==
    Len(Calls) >= 2 =>
        Calls[2].params.messages =
            IF ToolUses(initial_response.content) # <<>>
            THEN << Message("user", query),
                    Message("assistant", initial_response.content),
                    Message("user", ExpectedResults) >>
            ELSE << Message("user", query),
                    Message("assistant", initial_response.content) >>

\* C16 witness: two tool_use blocks whose executions returned different strings
C16_Witness ==
    Done /\ Len(Calls) = 2 /\ Len(Execs) = 2
         /\ Execs[1].output # Execs[2].output
         /\ Len(Calls[2].params.messages) = 3

\* a request whose first response is not followed by tool execution
NoRoundTrip ==
    Done /\ FirstReturned
         /\ (initial_response.stop_reason # "tool_use" \/ tool_manager = "None")

\* C17 as stated: with a stop reason other than tool_use, or without a tool
\* manager, no tool is executed, one remote call is made and the result is the
\* first text block of the response.
C17_Original ==
    NoRoundTrip =>
        /\ Execs = <<>>
        /\ Len(Calls) = 1
        /\ Texts(initial_response.content) # <<>>
        /\ result.value = Texts(initial_response.content)[1].text

\* C17 amended: with a stop reason other than tool_use (any other value), or
\* with tool_use and no tool manager, no tool is executed and exactly one
\* remote call is made; the result is the text of the response's first
\* content block when that block is a text block, and fallback(query,
\* history) when the content is empty or starts with another block.
C17_NoRoundTrip ==
    NoRoundTrip =>
        /\ Execs = <<>>
        /\ Len(Calls) = 1
        /\ result.outcome = "returned"
        /\ LET content == initial_response.content
           IN IF content # <<>> /\ content[1].type = "text"
              THEN result.value = content[1].text /\ fallback_calls = <<>>
              ELSE /\ result.value = Fallback(query, conversation_history)
                   /\ fallback_calls = <<FallbackCall(query, conversation_history)>>

\* C17 witness: tool_use without a tool manager, the text before the tool_use
\* block returned
C17_Witness ==
    NoRoundTrip /\ initial_response.stop_reason = "tool_use"
                /\ Len(initial_response.content) = 2
                /\ initial_response.content[1].type = "text"
                /\ initial_response.content[2].type = "tool_use"
                /\ result.value = initial_response.content[1].text

\* C18: the first call's messages are the user's query alone; its system
\* string is the prompt, followed by the "Previous conversation:" header and
\* the history when the history is neither None nor empty; it carries tools
\* and tool_choice auto when the tools list is neither None nor empty and
\* neither of them otherwise; the second call has the first call's system
\* string.
C18_Envelope ==
    Len(Calls) >= 1 =>
        LET p == Calls[1].params
        IN /\ p.messages = << [role |-> "user", content |-> query] >>
           /\ p.system =
                 IF conversation_history.isNone \/ conversation_history.val = <<>>
                 THEN SYSTEM_PROMPT
                 ELSE SYSTEM_PROMPT \o <<"\n\nPrevious conversation:\n">>
                                    \o conversation_history.val
           /\ IF tools.isNone \/ tools.val = <<>>
              THEN "tools" \notin DOMAIN p /\ "tool_choice" \notin DOMAIN p
              ELSE /\ "tools" \in DOMAIN p /\ "tool_choice" \in DOMAIN p
                   /\ p.tools = tools.val
                   /\ p.tool_choice = [type |-> "auto"]
           /\ Len(Calls) >= 2 => Calls[2].params.system = p.system

\* C18 witness: a round-trip with an empty history and an empty tools list
C18_Witness ==
    Done /\ Len(Calls) = 2 /\ conversation_history = Some(<<>>)
         /\ tools = Some(<<>>) /\ Calls[1].params.system = SYSTEM_PROMPT

(***************************************************************************)
(* The request under the assumption that a remote call and a tool          *)
(* execution, once begun, return or raise.                                 *)
(***************************************************************************)
\* the first call of generate_response on the instance
FirstRequest(q, h, t, tm) ==
    /\ pc = "idle"
    /\ Start(q, h, t, tm)

\* one request, from the call of generate_response to its end
NextOnce ==
    \/ \E q \in Queries, h \in Histories, t \in ToolLists, tm \in ToolManagers :
          FirstRequest(q, h, t, tm)
    \/ \E resp \in FirstResponses : FirstCallReturns(resp)
    \/ \E e \in Errors : FirstCallRaises(e)
    \/ \E out \in ToolOutputs : ExecuteToolReturns(out)
    \/ \E e \in Errors : ExecuteToolRaises(e)
    \/ \E resp \in SecondResponses : SecondCallReturns(resp)
    \/ \E e \in Errors : SecondCallRaises(e)

LiveSpec == Init /\ [][NextOnce]_vars /\ WF_vars(NextOnce)

\* the states of a request in the order it passes them
Rank(p) ==
    CASE p = "idle" -> 0
      [] p = "first_call" -> 1
      [] p = "tool_loop" -> 2
      [] p = "second_call" -> 3
      [] OTHER -> 4

\* a step of a request moves it to a later state, or to a later block of the
\* tool loop
Advances ==
    \/ Rank(pc') > Rank(pc)
    \/ pc = "tool_loop" /\ pc' = "tool_loop" /\ idx' > idx

\* at most two remote calls and at most one execution per tool_use block
WithinBudget ==
    /\ Len(Calls) <= 2
    /\ Len(Execs) <= Len(ToolUses(initial_response.content))

\* C19: a request never goes back to a state it has left, makes at most two
\* remote calls and at most one tool execution per tool_use block of the first
\* response, and once begun reaches its terminal state.
C19_Terminates ==
    /\ [][Advances]_vars
    /\ []WithinBudget
    /\ (pc = "first_call") ~> Done

\* C19 witness: a request that went through every state and is over
C19_Witness ==
    Done /\ Len(Calls) = 2 /\ Len(Execs) = 2
         /\ Len(ToolUses(initial_response.content)) = 2

\* C20: within a request the first thing done is a remote call; a tool is
\* executed only after that call returned and before any other call; a second
\* remote call is made only after a first call that returned tool_use with a
\* tool manager supplied, and after every tool_use block of that response has
\* been executed, in order and successfully.
C20_Ordering ==
    \A i \in 1..Len(log) :
        /\ i = 1 => IsCall(log[i])
        /\ IsExec(log[i]) =>
              /\ log[1].outcome = "ok"
              /\ \A j \in 2..i : IsExec(log[j])
        /\ (IsCall(log[i]) /\ i > 1) =>
              /\ log[1].outcome = "ok"
              /\ log[1].response.stop_reason = "tool_use"
              /\ tool_manager # "None"
              /\ \A j \in 2..(i - 1) : IsExec(log[j]) /\ log[j].outcome = "ok"
              /\ [j \in 1..(i - 2) |->
                     [name |-> log[j + 1].name, input |-> log[j + 1].input]]
                 = Invocations(ToolUses(log[1].response.content))

\* C20 witness: a call, two executions and the second call, in that order
C20_Witness ==
    Done /\ Len(log) = 4 /\ IsCall(log[1]) /\ IsExec(log[2])
         /\ IsExec(log[3]) /\ IsCall(log[4])

(***************************************************************************)
(* Two invocations of generate_response on one instance, their steps       *)
(* interleaved.  The variables of the request are the locals of the        *)
(* invocation that is running and peer holds the locals of the other one;  *)
(* self.base_params is the instance's and is shared.                       *)
(***************************************************************************)
\* the locals of the running invocation
Locals ==
    [pc |-> pc, query |-> query, conversation_history |-> conversation_history,
     tools |-> tools, tool_manager |-> tool_manager, api_params |-> api_params,
     initial_response |-> initial_response, messages |-> messages,
     tool_results |-> tool_results, idx |-> idx, final_params |-> final_params,
     log |-> log, fallback_calls |-> fallback_calls, result |-> result]

\* a scheduler under which messages is an attribute of the instance
Switch_SharedMessages ==
    /\ peer' = Locals
    /\ pc' = peer.pc
    /\ query' = peer.query
    /\ conversation_history' = peer.conversation_history
    /\ tools' = peer.tools
    /\ tool_manager' = peer.tool_manager
    /\ api_params' = peer.api_params
    /\ initial_response' = peer.initial_response
    /\ tool_results' = peer.tool_results
    /\ idx' = peer.idx
    /\ final_params' = peer.final_params
    /\ log' = peer.log
    /\ fallback_calls' = peer.fallback_calls
    /\ result' = peer.result
    /\ UNCHANGED <<base_params, messages>>

\* the other invocation is scheduled: every local of generate_response and of
\* _handle_tool_execution belongs to the invocation, the instance does not
Switch ==
    /\ peer' = Locals
    /\ pc' = peer.pc
    /\ query' = peer.query
    /\ conversation_history' = peer.conversation_history
    /\ tools' = peer.tools
    /\ tool_manager' = peer.tool_manager
    /\ api_params' = peer.api_params
    /\ initial_response' = peer.initial_response
    /\ messages' = peer.messages
    /\ tool_results' = peer.tool_results
    /\ idx' = peer.idx
    /\ final_params' = peer.final_params
    /\ log' = peer.log
    /\ fallback_calls' = peer.fallback_calls
    /\ result' = peer.result
    /\ UNCHANGED base_params

\* the inputs of the interleaved requests
QueryWhy == <<"W","H","Y","?">>
QueryHi == <<"H","i"," ","\"","x","\"","!">>
ConcQueries == { QueryWhy, QueryHi }
ConcHistories == { None, Some(<<"U","s","e","r",":"," ","h","i">>) }
ConcToolLists == { None, Some(<<SearchTool>>) }
ConcFirstResponses ==
    { Response(<<TextBlock(<<"Let me search.">>)>>, "end_turn"),
      Response(<<TextBlock(<<"Let me search.">>),
                 ToolUseBlock("t1", "search_course_content", [query |-> "X"])>>,
               "tool_use") }
ConcSecondResponses ==
    { Response(<<TextBlock(<<"X appears at minute 5.">>)>>, "end_turn") }
ConcErrors == { Error("timeout", <<"Request timed out.">>) }

ConcNext ==
    \/ \E q \in ConcQueries, h \in ConcHistories, t \in ConcToolLists :
          Start(q, h, t, "ToolManager")
    \/ \E resp \in ConcFirstResponses : FirstCallReturns(resp)
    \/ \E e \in ConcErrors : FirstCallRaises(e)
    \/ \E out \in ToolOutputs : ExecuteToolReturns(out)
    \/ \E e \in ConcErrors : ExecuteToolRaises(e)
    \/ \E resp \in ConcSecondResponses : SecondCallReturns(resp)
    \/ \E e \in ConcErrors : SecondCallRaises(e)
    \/ Switch

ConcSpec == Init /\ [][ConcNext]_vars

\* what an invocation with locals L does when it runs alone, given what its
\* own calls and tools came back with
CallsOf(L) == SelectSeq(L.log, IsCall)
ExecsOf(L) == SelectSeq(L.log, IsExec)
AloneApiParams(L) ==
    ApiParams(InitBaseParams, L.query, L.conversation_history, L.tools)
AloneMessages(L) ==
    LET content == CallsOf(L)[1].response.content
        uses == ToolUses(content)
    IN WithToolResults(
           << Message("user", L.query), Message("assistant", content) >>,
           [i \in 1..Len(ExecsOf(L)) |->
               ToolResult(uses[i].id, ExecsOf(L)[i].output)])
AloneResult(L) ==
    LET first == CallsOf(L)[1]
        execs == ExecsOf(L)
    IN IF first.outcome = "error"
       THEN ExceptClauses(first.error, L.query, L.conversation_history)
       ELSE IF NeedsToolExecution(first.response, L.tool_manager)
       THEN IF \E i \in 1..Len(execs) : execs[i].outcome = "error"
            THEN ExceptClauses(execs[Len(execs)].error, L.query,
                               L.conversation_history)
            ELSE LET second == CallsOf(L)[2]
                     r == ContentText(second.response.content)
                 IN IF second.outcome = "error"
                    THEN FinalExceptClause(second.error, AloneApiParams(L))
                    ELSE IF r.outcome = "raised"
                    THEN FinalExceptClause(r.exc, AloneApiParams(L))
                    ELSE r
       ELSE LET r == ContentText(first.response.content)
            IN IF r.outcome = "raised"
               THEN ExceptClauses(r.exc, L.query, L.conversation_history)
               ELSE r

\* the calls an invocation made and the result it gave are those of a run alone
AsAlone(L) ==
    /\ Len(CallsOf(L)) >= 1 => CallsOf(L)[1].params = AloneApiParams(L)
    /\ Len(CallsOf(L)) >= 2 =>
          CallsOf(L)[2].params =
              FinalParams(InitBaseParams, AloneApiParams(L), AloneMessages(L))
    /\ L.pc = "done" => L.result = AloneResult(L)

\* C14: under any interleaving of two invocations on one instance, each
\* invocation's calls, outgoing message lists, system string and result are
\* those it has when it runs alone, and a step of one invocation leaves the
\* locals of the other as they were.
C14_Independent ==
    /\ [](AsAlone(Locals) /\ AsAlone(peer))
    /\ [][peer' = peer \/ (peer' = Locals /\ Locals' = peer)]_vars

\* C14 witness: two round-trips for different queries, one over and one between
\* its tool execution and its second call
C14_Witness ==
    /\ pc = "done" /\ Len(Calls) = 2
    /\ peer.pc = "second_call"
    /\ peer.query # query
    /\ Truthy(peer.conversation_history) /\ ~Truthy(conversation_history)

====
